---- MODULE Spec2Model ----
(***************************************************************************)
(* The sensor-station dashboard: the Assistant Panel (AiAssistantChat.tsx) *)
(* and the Station Map (Map.tsx).                                          *)
(*                                                                         *)
(* JavaScript values are tagged records: t is the value's kind.            *)
(*   "undefined", "null", "number" (v), "string" (v, a sequence of text    *)
(*   tokens), "array" (items), "object" (an object with none of the fields *)
(*   the code reads), "envelope" (an object whose                          *)
(*   choices[0].message.content is the field content), "suggestion" (an    *)
(*   object with the fields of the Suggestion interface), "reading"        *)
(*   (a SensorReading).                                                    *)
(***************************************************************************)
EXTENDS Integers, Sequences, FiniteSets, TLC

VARIABLES
  stations,     \* the stations prop the parent supplies to both components
  chatOpen,     \* useState(false)
  suggestions,  \* useState<Suggestion[]>([]): whatever setSuggestions was given
  loading,      \* useState(false)
  calls,        \* the suspended calls of analyzeStationsWithAI: each is at
                \* await fetch (pc "fetch") or at await response.json() ("json")
  last,         \* the most recently settled call of analyzeStationsWithAI
  crashed,      \* the panel's render threw and React unmounted it
  view,         \* what the panel's last render returned
  map           \* the map: viewport and rendered markers

vars == <<stations, chatOpen, suggestions, loading, calls, last, crashed, view, map>>

----------------------------------------------------------------------------
(* Bounds of the model. *)

MaxStations == 2    \* longest station list of the fallback and of the map
MaxZoomSteps == 1   \* how far the user zooms the map from its initial zoom

----------------------------------------------------------------------------
(* JavaScript values. *)

Undefined == [t |-> "undefined"]
Null == [t |-> "null"]
Num(n) == [t |-> "number", v |-> n]
Str(s) == [t |-> "string", v |-> s]
Arr(items) == [t |-> "array", items |-> items]
Obj == [t |-> "object"]
Envelope(c) == [t |-> "envelope", content |-> c]

\* JavaScript truthiness (ToBoolean).
Truthy(v) ==
  CASE v.t \in {"undefined", "null"} -> FALSE
    [] v.t = "number" -> v.v # 0
    [] v.t = "string" -> v.v # <<>>
    [] OTHER -> TRUE

\* v.length for a value that is neither null nor undefined; -1 stands for
\* undefined (no length property), which is neither === 0 nor > 0.  A string's
\* length is counted in tokens: it is 0 exactly when the string is empty, and
\* the code only tests the length against 0.
Length(v) ==
  CASE v.t = "array" -> Len(v.items)
    [] v.t = "string" -> Len(v.v)
    [] OTHER -> -1

\* Reading a property of v throws a TypeError.
Nullish(v) == v.t \in {"undefined", "null"}

----------------------------------------------------------------------------
(* Text.  A string is a sequence of tokens: a backtick, the word json, a    *)
(* whitespace character, the JSON text of a value, or text that is no JSON. *)

Tick == [k |-> "backtick"]
JsonWord == [k |-> "json"]
Ws == [k |-> " "]
Junk == [k |-> "junk"]
Text(v) == [k |-> "text", of |-> v]

IsTicks(s, i) == Len(s) >= i + 2 /\ s[i] = Tick /\ s[i + 1] = Tick /\ s[i + 2] = Tick

\* content.replace(fence regex, ""), the regex being three backticks followed
\* by json, or three backticks: all leftmost matches, the longer alternative
\* tried first.
RECURSIVE StripFences(_)
StripFences(s) ==
  IF s = <<>> THEN <<>>
  ELSE IF IsTicks(s, 1) /\ Len(s) >= 4 /\ s[4] = JsonWord
    THEN StripFences(SubSeq(s, 5, Len(s)))
  ELSE IF IsTicks(s, 1)
    THEN StripFences(SubSeq(s, 4, Len(s)))
  ELSE <<Head(s)>> \o StripFences(Tail(s))

\* String.prototype.trim
RECURSIVE TrimStart(_)
TrimStart(s) == IF s # <<>> /\ Head(s) = Ws THEN TrimStart(Tail(s)) ELSE s

RECURSIVE TrimEnd(_)
TrimEnd(s) ==
  IF s # <<>> /\ s[Len(s)] = Ws THEN TrimEnd(SubSeq(s, 1, Len(s) - 1)) ELSE s

Trim(s) == TrimEnd(TrimStart(s))

\* JSON.parse: whitespace around one JSON text is allowed; anything else (the
\* empty string, a stray backtick, a word, prose) is a SyntaxError.  The
\* strings of the model hold at most one JSON text.
JSONparse(s) ==
  LET core == Trim(s)
  IN IF Len(core) = 1 /\ core[1].k = "text"
       THEN [ok |-> TRUE, value |-> core[1].of]
       ELSE [ok |-> FALSE, value |-> Undefined]

----------------------------------------------------------------------------
(* Stations, readings and suggestions. *)

TempThreshold == 30
EmissionsThreshold == 150
NoiseThreshold == 85

Reading(temp, em, noise) ==
  [t |-> "reading", datetime |-> "2024-01-01T00:00:00Z",
   temperature |-> temp, emissions |-> em, noise |-> noise]

\* Coordinates are in hundredths of a degree; the i-th station of a list has
\* id i and its own coordinates.
Station(i, name, reading) ==
  [id |-> i,
   info |-> [name |-> name, latitude |-> 3270 + i, longitude |-> 7480 + i,
             area |-> "Area " \o name],
   latestReading |-> reading]

Suggestion(name, area, parameter, value, threshold, text) ==
  [t |-> "suggestion", stationName |-> name, area |-> area,
   parameter |-> parameter, value |-> value, threshold |-> threshold,
   suggestion |-> text]

\* s.latestReading?.temperature! > 30 and its two siblings: undefined > n is
\* false.
Exceeds(reading, field, threshold) ==
  /\ ~Nullish(reading)
  /\ CASE field = "temperature" -> reading.temperature > threshold
       [] field = "emissions" -> reading.emissions > threshold
       [] field = "noise" -> reading.noise > threshold

\* A variant of the callback below that tests emissions before temperature.
MapStation_EmissionsFirst(s) ==
  IF Exceeds(s.latestReading, "emissions", EmissionsThreshold)
    THEN Suggestion(s.info.name, s.info.area, "PM 2.5 Emissions",
                    s.latestReading.emissions, EmissionsThreshold,
                    "Implement carbon capture technologies or reduce operational hours.")
  ELSE IF Exceeds(s.latestReading, "temperature", TempThreshold)
    THEN Suggestion(s.info.name, s.info.area, "Temperature",
                    s.latestReading.temperature, TempThreshold,
                    "Deploy cooling systems or improve ventilation.")
  ELSE IF Exceeds(s.latestReading, "noise", NoiseThreshold)
    THEN Suggestion(s.info.name, s.info.area, "Noise",
                    s.latestReading.noise, NoiseThreshold,
                    "Install noise barriers or schedule loud activities during off-peak hours.")
  ELSE Null

\* The callback of stations.map in the fallback.
MapStation(s) ==
  IF Exceeds(s.latestReading, "temperature", TempThreshold)
    THEN Suggestion(s.info.name, s.info.area, "Temperature",
                    s.latestReading.temperature, TempThreshold,
                    "Deploy cooling systems or improve ventilation.")
  ELSE IF Exceeds(s.latestReading, "emissions", EmissionsThreshold)
    THEN Suggestion(s.info.name, s.info.area, "PM 2.5 Emissions",
                    s.latestReading.emissions, EmissionsThreshold,
                    "Implement carbon capture technologies or reduce operational hours.")
  ELSE IF Exceeds(s.latestReading, "noise", NoiseThreshold)
    THEN Suggestion(s.info.name, s.info.area, "Noise",
                    s.latestReading.noise, NoiseThreshold,
                    "Install noise barriers or schedule loud activities during off-peak hours.")
  ELSE Null

\* stations.map(...).filter(Boolean)
Fallback(sts) ==
  LET mapped == [i \in 1..Len(sts) |-> MapStation(sts[i])]
      keep(x) == Truthy(x)
  IN SelectSeq(mapped, keep)

----------------------------------------------------------------------------
(* analyzeStationsWithAI.  An outcome is what the two awaits of the try     *)
(* block produce: fetch rejects ("networkError"), response.ok is false      *)
(* ("httpError"), response.json() rejects ("invalidBody"), or the body is   *)
(* JSON ("ok", with data the parsed body).                                  *)

Outcome(kind, data) == [kind |-> kind, data |-> data]

\* Array.isArray(apiData) && apiData[0]?.stationName
IsDirectArray(apiData) ==
  /\ apiData.t = "array"
  /\ Len(apiData.items) > 0
  /\ apiData.items[1].t = "suggestion"
  /\ apiData.items[1].stationName # ""

\* apiData.choices?.[0]?.message?.content || "", for apiData not nullish
ContentOf(apiData) ==
  IF apiData.t = "envelope" /\ Truthy(apiData.content)
    THEN apiData.content
    ELSE Str(<<>>)

\* The try block: the value of finalSuggestions when it is left.  A TypeError
\* in the else branch (apiData is null, or content is not a string) lands in
\* the outer catch; a SyntaxError of JSON.parse in the inner one.
TryBlock(outcome) ==
  IF outcome.kind # "ok" THEN Arr(<<>>)
  ELSE IF IsDirectArray(outcome.data) THEN outcome.data
  ELSE IF Nullish(outcome.data) THEN Arr(<<>>)
  ELSE LET content == ContentOf(outcome.data)
       IN IF content.t # "string" THEN Arr(<<>>)
          ELSE LET parsed == JSONparse(Trim(StripFences(content.v)))
               IN IF parsed.ok THEN parsed.value ELSE Arr(<<>>)

\* From the try block to the end: finalSuggestions.length throws on null (the
\* promise rejects and neither setter runs), the fallback replaces a value of
\* length 0, anything else is kept.
CompleteAnalysis(sts, outcome) ==
  LET fs == TryBlock(outcome)
  IN IF Nullish(fs)
       THEN [threw |-> TRUE, final |-> fs, fallback |-> FALSE]
     ELSE IF Length(fs) = 0
       THEN [threw |-> FALSE, final |-> Arr(Fallback(sts)), fallback |-> TRUE]
     ELSE [threw |-> FALSE, final |-> fs, fallback |-> FALSE]

----------------------------------------------------------------------------
(* The panel's render. *)

\* The station names of the model that are canonical array indices, with
\* their value; -1 for any other name.  An object's integer-like keys are
\* enumerated first, in ascending order, whatever the order of insertion.
CanonicalIndex(name) ==
  CASE name = "2" -> 2
    [] name = "10" -> 10
    [] OTHER -> -1

\* suggestions.reduce(...): acc as the keys in insertion order and the array
\* under each key.  No station name of the model is a property of
\* Object.prototype.
RECURSIVE GroupReduce(_, _)
GroupReduce(acc, items) ==
  IF items = <<>> THEN acc
  ELSE LET curr == Head(items)
           key == curr.stationName
           keys == IF key \in DOMAIN acc.groups THEN acc.keys ELSE Append(acc.keys, key)
           old == IF key \in DOMAIN acc.groups THEN acc.groups[key] ELSE <<>>
           groups == [k \in DOMAIN acc.groups \cup {key} |->
                        IF k = key THEN Append(old, curr) ELSE acc.groups[k]]
       IN GroupReduce([keys |-> keys, groups |-> groups], Tail(items))

RECURSIVE AscendingIndices(_)
AscendingIndices(names) ==
  IF names = {} THEN <<>>
  ELSE LET least == CHOOSE n \in names :
                      \A m \in names : CanonicalIndex(n) <= CanonicalIndex(m)
       IN <<least>> \o AscendingIndices(names \ {least})

\* The keys of Object.entries(acc), in its order.
EntryKeys(acc) ==
  LET isIndex(k) == CanonicalIndex(k) >= 0
      isName(k) == CanonicalIndex(k) < 0
  IN AscendingIndices({k \in DOMAIN acc.groups : isIndex(k)}) \o SelectSeq(acc.keys, isName)

\* Object.entries(suggestions.reduce(...)).map(...): one Box per entry.
Groups(items) ==
  LET acc == GroupReduce([keys |-> <<>>, groups |-> [k \in {} |-> <<>>]], items)
      order == EntryKeys(acc)
  IN [i \in 1..Len(order) |->
        [stationName |-> order[i],
         area |-> acc.groups[order[i]][1].area,    \* stationSuggestions[0]?.area || ""
         items |-> acc.groups[order[i]]]]

\* The render throws: suggestions.reduce is not a function on a non-empty
\* string, curr.stationName on a null element.
RenderThrows(open, sugg) ==
  /\ open
  /\ Length(sugg) > 0
  /\ \/ sugg.t # "array"
     \/ \E i \in 1..Len(sugg.items) : Nullish(sugg.items[i])

\* A variant of the button below without disabled={loading}.
AnalyzeButton_AlwaysEnabled(load) == "enabled"

\* disabled={loading}
AnalyzeButton(load) == IF load THEN "disabled" ELSE "enabled"

Unmounted ==
  [open |-> FALSE, toggle |-> FALSE, hint |-> FALSE, spinner |-> FALSE,
   groups |-> <<>>, analyze |-> "absent"]

Render(open, sugg, load) ==
  IF ~open
    THEN [open |-> FALSE, toggle |-> TRUE, hint |-> FALSE, spinner |-> FALSE,
          groups |-> <<>>, analyze |-> "absent"]
    ELSE [open |-> TRUE, toggle |-> TRUE,
          hint |-> (Length(sugg) = 0 /\ ~load),
          spinner |-> load,
          groups |-> IF Length(sugg) > 0 THEN Groups(sugg.items) ELSE <<>>,
          analyze |-> AnalyzeButton(load)]

\* React renders the component after a state change; a render that throws
\* unmounts it.
Rerender(open, sugg, load) ==
  IF crashed \/ RenderThrows(open, sugg)
    THEN crashed' = TRUE /\ view' = Unmounted
    ELSE crashed' = FALSE /\ view' = Render(open, sugg, load)

----------------------------------------------------------------------------
(* The map's render. *)

initialCenter == <<3273, 7486>>
initialZoom == 11

\* new Date(datetime).toLocaleString()
ToLocaleString(datetime) == <<"locale", datetime>>

\* A variant of the popup below that shows noise as emissions and emissions as
\* noise.
Popup_FieldsSwapped(station) ==
  IF Truthy(station.latestReading)
    THEN [name |-> station.info.name, body |-> "reading",
          temperature |-> station.latestReading.temperature,
          emissions |-> station.latestReading.noise,
          noise |-> station.latestReading.emissions,
          latitude |-> station.info.latitude,
          longitude |-> station.info.longitude,
          lastUpdated |-> ToLocaleString(station.latestReading.datetime)]
    ELSE [name |-> station.info.name, body |-> "No reading available"]

\* The Popup of a marker.
Popup(station) ==
  IF Truthy(station.latestReading)
    THEN [name |-> station.info.name, body |-> "reading",
          temperature |-> station.latestReading.temperature,
          emissions |-> station.latestReading.emissions,
          noise |-> station.latestReading.noise,
          latitude |-> station.info.latitude,
          longitude |-> station.info.longitude,
          lastUpdated |-> ToLocaleString(station.latestReading.datetime)]
    ELSE [name |-> station.info.name, body |-> "No reading available"]

Marker(station) ==
  [key |-> station.id,
   position |-> <<station.info.latitude, station.info.longitude>>,
   popup |-> Popup(station)]

\* stations.map((station) => <Marker ...>)
Markers(sts) == [i \in 1..Len(sts) |-> Marker(sts[i])]

----------------------------------------------------------------------------
(* The inputs of the model. *)

\* All sequences over S of length at most n.
SeqsUpTo(S, n) == UNION {[1..k -> S] : k \in 0..n}

\* Readings on and just above each threshold, and the absent reading.
Readings ==
  {Null} \cup {Reading(temp, em, noise) :
                 temp \in {TempThreshold, TempThreshold + 1},
                 em \in {EmissionsThreshold, EmissionsThreshold + 1},
                 noise \in {NoiseThreshold, NoiseThreshold + 1}}

\* Every station list of at most MaxStations stations named A or 10.
AllStationLists ==
  {[i \in DOMAIN l |-> Station(i, l[i][1], l[i][2])] :
     l \in SeqsUpTo({"A", "10"} \X Readings, MaxStations)}

\* The station lists the parent hands to a mounted panel and map.
PanelStationLists ==
  { <<>>,
    <<Station(1, "A", Reading(31, 151, 86))>>,
    <<Station(1, "10", Reading(31, 150, 85)), Station(2, "2", Reading(30, 150, 86))>>,
    <<Station(1, "A", Null), Station(2, "A", Reading(30, 151, 85))>> }

\* What the remote endpoint puts in an array: a suggestion that matches
\* station A's reading, one with an empty station name, one whose value and
\* threshold match no station, and null.
RemoteMatching ==
  Suggestion("A", "Area A", "Temperature", 31, 30, "Deploy cooling systems or improve ventilation.")

RemoteUnnamed == Suggestion("", "Area A", "Noise", 86, 85, "Install noise barriers.")

RemoteUnmatched == Suggestion("A", "Area A", "Noise", 120, 70, "Close the road.")

RemoteArrays ==
  { Arr(<<>>), Arr(<<RemoteMatching>>), Arr(<<RemoteUnnamed>>), Arr(<<RemoteUnmatched>>),
    Arr(<<RemoteMatching, RemoteUnmatched>>), Arr(<<RemoteMatching, RemoteUnnamed>>),
    Arr(<<RemoteUnnamed, RemoteMatching>>), Arr(<<Null>>), Arr(<<RemoteMatching, Null>>) }

JsonValues == {Null, Num(5), Obj, Str(<<>>), Str(<<Junk>>)} \cup RemoteArrays

\* A JSON text bare, and fenced as a json code block.
Fenced(v) == <<Tick, Tick, Tick, JsonWord, Ws, Text(v), Ws, Tick, Tick, Tick>>

Contents ==
  {<<Text(v)>> : v \in JsonValues}
  \cup {Fenced(v) : v \in {Null, Arr(<<>>), Arr(<<RemoteMatching>>)}}
  \cup { <<>>, <<Junk>>, <<Ws, Text(Arr(<<>>)), Ws>>,
         <<Tick, Tick, Tick, Text(Num(5)), Tick, Tick, Tick>>,
         <<Tick, Tick, Text(Num(5))>>,
         <<JsonWord, Text(Num(5))>> }

ApiData ==
  JsonValues
  \cup {Envelope(Str(c)) : c \in Contents}
  \cup {Envelope(Undefined), Envelope(Null), Envelope(Num(5))}

\* What await response.json() yields: it rejects, or it is the parsed body.
Bodies == {Outcome("invalidBody", Undefined)} \cup {Outcome("ok", d) : d \in ApiData}

\* The bodies of an endpoint that finds nothing.
EmptyBodies == {Outcome("invalidBody", Undefined), Outcome("ok", Arr(<<>>))}

----------------------------------------------------------------------------
(* The state machine. *)

NoCall == [state |-> "none", stations |-> <<>>, outcome |-> Outcome("none", Undefined),
           fallback |-> FALSE]

InitWith(lists) ==
  /\ stations \in lists
  /\ chatOpen = FALSE
  /\ suggestions = Arr(<<>>)
  /\ loading = FALSE
  /\ calls = <<>>
  /\ last = NoCall
  /\ crashed = FALSE
  /\ view = Render(FALSE, Arr(<<>>), FALSE)
  /\ map = [center |-> initialCenter, zoom |-> initialZoom, markers |-> Markers(stations)]

Init == InitWith(PanelStationLists)

\* The floating button or the close icon is clicked.
toggleChat ==
  /\ view.toggle
  /\ chatOpen' = ~chatOpen
  /\ Rerender(chatOpen', suggestions, loading)
  /\ UNCHANGED <<stations, suggestions, loading, calls, last, map>>

\* A variant of the click below without setSuggestions([]).
ClickAnalyze_KeepResults ==
  /\ view.analyze = "enabled"
  /\ loading' = TRUE
  /\ suggestions' = suggestions
  /\ calls' = Append(calls, [stations |-> stations, pc |-> "fetch"])
  /\ Rerender(chatOpen, suggestions', loading')
  /\ UNCHANGED <<stations, chatOpen, last, map>>

\* The Analyze button is clicked: analyzeStationsWithAI(stations) runs up to
\* its await of fetch.  The handler runs on the one UI thread, its two state
\* updates are rendered together, and the call keeps the station list it was
\* given.
ClickAnalyze ==
  /\ view.analyze = "enabled"
  /\ loading' = TRUE
  /\ suggestions' = Arr(<<>>)
  /\ calls' = Append(calls, [stations |-> stations, pc |-> "fetch"])
  /\ Rerender(chatOpen, suggestions', loading')
  /\ UNCHANGED <<stations, chatOpen, last, map>>

Without(seq, i) == SubSeq(seq, 1, i - 1) \o SubSeq(seq, i + 1, Len(seq))

\* The i-th suspended call, whose awaits have produced outcome, runs to its
\* end without suspending again: either it throws at finalSuggestions.length
\* and neither setter runs, or both setters run.
RunToEnd(i, outcome) ==
  LET call == calls[i]
      r == CompleteAnalysis(call.stations, outcome)
  IN /\ calls' = Without(calls, i)
     /\ IF r.threw
          THEN /\ last' = [state |-> "rejected", stations |-> call.stations,
                           outcome |-> outcome, fallback |-> FALSE]
               /\ UNCHANGED <<suggestions, loading, crashed, view>>
          ELSE /\ last' = [state |-> "returned", stations |-> call.stations,
                           outcome |-> outcome, fallback |-> r.fallback]
               /\ suggestions' = r.final
               /\ loading' = FALSE
               /\ Rerender(chatOpen, suggestions', loading')
     /\ UNCHANGED <<stations, chatOpen, map>>

\* await fetch rejects: the catch empties finalSuggestions and the call runs
\* to its end.
FetchRejects(i) ==
  /\ calls[i].pc = "fetch"
  /\ RunToEnd(i, Outcome("networkError", Undefined))

\* await fetch resolves with a response.  If response.ok is false the call
\* throws into the catch and runs to its end; otherwise it calls
\* response.json() and suspends again, having changed no state.
FetchResolves(i, ok) ==
  /\ calls[i].pc = "fetch"
  /\ IF ok
       THEN /\ calls' = [calls EXCEPT ![i].pc = "json"]
            /\ UNCHANGED <<stations, chatOpen, suggestions, loading, last, crashed,
                           view, map>>
       ELSE RunToEnd(i, Outcome("httpError", Undefined))

\* await response.json() settles and the call runs to its end.
JsonSettles(i, outcome) ==
  /\ calls[i].pc = "json"
  /\ RunToEnd(i, outcome)

\* The station lists one change away: a station is added or dropped at the
\* end, or a station gets another reading.
Neighbours(list) ==
  {Append(list, Station(Len(list) + 1, name, r)) :
     name \in {n \in {"A", "10"} : Len(list) < MaxStations}, r \in Readings}
  \cup {SubSeq(list, 1, Len(list) - 1) : k \in {n \in {1} : list # <<>>}}
  \cup {[list EXCEPT ![i].latestReading = r] : i \in DOMAIN list, r \in Readings}

\* The parent renders both components with another station list.
SetStations(list) ==
  /\ list # stations
  /\ stations' = list
  /\ map' = [map EXCEPT !.markers = Markers(list)]
  /\ UNCHANGED <<chatOpen, suggestions, loading, calls, last, crashed, view>>

\* The user zooms the map (scrollWheelZoom).
ZoomMap(d) ==
  /\ map.zoom + d \in (initialZoom - MaxZoomSteps)..(initialZoom + MaxZoomSteps)
  /\ map' = [map EXCEPT !.zoom = @ + d]
  /\ UNCHANGED <<stations, chatOpen, suggestions, loading, calls, last, crashed, view>>

Next ==
  \/ toggleChat
  \/ ClickAnalyze
  \/ \E i \in 1..Len(calls) : FetchRejects(i)
  \/ \E i \in 1..Len(calls), ok \in BOOLEAN : FetchResolves(i, ok)
  \/ \E i \in 1..Len(calls), outcome \in Bodies : JsonSettles(i, outcome)
  \/ \E list \in PanelStationLists : SetStations(list)

Spec == Init /\ [][Next]_vars

\* The panel over every station list, with an endpoint that is down, answers
\* with an error status or finds nothing: each analysis ends in the local
\* fallback.
InitFallback == InitWith(AllStationLists)

NextFallback ==
  \/ toggleChat
  \/ ClickAnalyze
  \/ \E i \in 1..Len(calls) : FetchRejects(i)
  \/ \E i \in 1..Len(calls), ok \in BOOLEAN : FetchResolves(i, ok)
  \/ \E i \in 1..Len(calls), outcome \in EmptyBodies : JsonSettles(i, outcome)

SpecFallback == InitFallback /\ [][NextFallback]_vars

\* The map over every station list, the parent changing the list one station
\* or one reading at a time and the user zooming.
NextMap ==
  \/ \E list \in Neighbours(stations) : SetStations(list)
  \/ \E d \in {-1, 1} : ZoomMap(d)

InitMap == InitWith({<<>>})

SpecMap == InitMap /\ [][NextMap]_vars

----------------------------------------------------------------------------
(* Properties. *)

\* A settled analysis whose results are still the displayed ones.
Settled == calls = <<>> /\ last.state = "returned"

\* An array of suggestion records, as the endpoint is expected to return.
IsSuggestionArray(v) ==
  /\ v.t = "array"
  /\ Len(v.items) > 0
  /\ \A i \in 1..Len(v.items) : v.items[i].t = "suggestion"

\* A chat-completion envelope whose content is the JSON text, fenced or not,
\* of an array of suggestion records.
IsEnvelopeOfArray(v) ==
  /\ v.t = "envelope"
  /\ v.content.t = "string"
  /\ LET parsed == JSONparse(Trim(StripFences(v.content.v)))
     IN parsed.ok /\ IsSuggestionArray(parsed.value)

Usable(outcome) ==
  outcome.kind = "ok" /\ (IsSuggestionArray(outcome.data) \/ IsEnvelopeOfArray(outcome.data))

\* C1: every analysis that settles has set the results and left loading: no
\* call ends rejected, and the panel is loading only while a call is in flight.
C1_EveryAnalysisResolves ==
  /\ last.state # "rejected"
  /\ loading => calls # <<>>

\* C2: after an analysis whose remote outcome is unusable (a failure, an empty
\* result, or a payload that is neither an array of suggestion records nor an
\* envelope of one), the displayed results are the fallback's for the station
\* list that analysis was given.
C2_UnusableEndsInFallback ==
  (Settled /\ ~Usable(last.outcome)) => suggestions = Arr(Fallback(last.stations))

\* The stations of a list that have a reading with a threshold strictly
\* exceeded, and the suggestion the specification prescribes for one.
Breaching(sts) ==
  {i \in DOMAIN sts :
     /\ sts[i].latestReading.t = "reading"
     /\ \/ sts[i].latestReading.temperature > 30
        \/ sts[i].latestReading.emissions > 150
        \/ sts[i].latestReading.noise > 85}

Prescribed(st, sg) ==
  LET r == st.latestReading
  IN /\ sg.stationName = st.info.name
     /\ IF r.temperature > 30
          THEN sg.parameter = "Temperature" /\ sg.value = r.temperature /\ sg.threshold = 30
        ELSE IF r.emissions > 150
          THEN sg.parameter = "PM 2.5 Emissions" /\ sg.value = r.emissions /\ sg.threshold = 150
        ELSE sg.parameter = "Noise" /\ sg.value = r.noise /\ sg.threshold = 85

\* C3: the fallback's suggestions are one per breaching station, in station
\* order, each the first exceeded of temperature, emissions, noise with that
\* reading as value and 30, 150, 85 as threshold; a station with no reading or
\* with no threshold strictly exceeded has none.
C3_FallbackOnePerStation ==
  (Settled /\ last.fallback) =>
    LET sts == last.stations
        b == Breaching(sts)
        nth(k) == CHOOSE i \in b : Cardinality({j \in b : j <= i}) = k
    IN /\ suggestions.t = "array"
       /\ Len(suggestions.items) = Cardinality(b)
       /\ \A k \in 1..Len(suggestions.items) : Prescribed(sts[nth(k)], suggestions.items[k])

\* A fallback over two stations, the first breaching emissions and noise but
\* not temperature, the second with no reading.
C3_Witness ==
  /\ Settled /\ last.fallback
  /\ Len(last.stations) = 2
  /\ last.stations[1].latestReading = Reading(30, 151, 86)
  /\ last.stations[2].latestReading = Null
  /\ Len(suggestions.items) = 1
  /\ suggestions.items[1].parameter = "PM 2.5 Emissions"

\* C4: a success whose body is directly a non-empty array of suggestion
\* records, whatever their station names, is displayed unchanged and the
\* fallback is not run.
C4_DirectArrayAccepted ==
  (Settled /\ last.outcome.kind = "ok" /\ IsSuggestionArray(last.outcome.data)) =>
    (suggestions = last.outcome.data /\ ~last.fallback)

\* C5: at most one analysis is in flight, and while one is the panel is
\* loading and shows no enabled Analyze button, open or closed.
C5_AtMostOneInFlight ==
  /\ Len(calls) <= 1
  /\ calls # <<>> => (loading /\ view.analyze # "enabled")

\* A second analysis in flight after a first has returned, suspended at
\* await response.json(), the panel open and its Analyze button disabled.
C5_Witness ==
  /\ Len(calls) = 1
  /\ calls[1].pc = "json"
  /\ last.state = "returned"
  /\ view.open
  /\ view.analyze = "disabled"

ReadingOf(r, parameter) ==
  CASE parameter = "Temperature" -> r.temperature
    [] parameter = "PM 2.5 Emissions" -> r.emissions
    [] parameter = "Noise" -> r.noise

ThresholdOf(parameter) ==
  CASE parameter = "Temperature" -> 30
    [] parameter = "PM 2.5 Emissions" -> 150
    [] parameter = "Noise" -> 85

\* C6: every displayed suggestion carries the reading of its parameter on the
\* station it names, from the list its analysis was given, and the fixed
\* threshold of its parameter.
C6_ValuesMatchReadings ==
  (Settled /\ suggestions.t = "array") =>
    \A i \in 1..Len(suggestions.items) :
      suggestions.items[i].t = "suggestion" =>
        LET sg == suggestions.items[i]
        IN /\ sg.threshold = ThresholdOf(sg.parameter)
           /\ \E j \in DOMAIN last.stations :
                /\ last.stations[j].info.name = sg.stationName
                /\ last.stations[j].latestReading.t = "reading"
                /\ sg.value = ReadingOf(last.stations[j].latestReading, sg.parameter)

\* The distinct station names of a suggestion list, in order of first
\* appearance.
RECURSIVE FirstAppearances(_, _)
FirstAppearances(items, seen) ==
  IF items = <<>> THEN <<>>
  ELSE IF Head(items).stationName \in seen THEN FirstAppearances(Tail(items), seen)
  ELSE <<Head(items).stationName>>
         \o FirstAppearances(Tail(items), seen \cup {Head(items).stationName})

\* C7: the rendered groups are one per distinct station name, in order of
\* first appearance, each holding the suggestions of that name in their
\* original order.
C7_GroupsInFirstAppearanceOrder ==
  (view.open /\ IsSuggestionArray(suggestions)) =>
    LET names == FirstAppearances(suggestions.items, {})
    IN /\ Len(view.groups) = Len(names)
       /\ \A g \in 1..Len(names) :
            LET named(sg) == sg.stationName = names[g]
            IN /\ view.groups[g].stationName = names[g]
               /\ view.groups[g].items = SelectSeq(suggestions.items, named)

\* The markers are one per station, in order, at its coordinates, the popup
\* showing the reading exactly when there is one.
MarkersMatchStations ==
  /\ Len(map.markers) = Len(stations)
  /\ \A i \in 1..Len(stations) :
       LET st == stations[i]
           m == map.markers[i]
       IN /\ m.position = <<st.info.latitude, st.info.longitude>>
          /\ (st.latestReading = Null) <=> (m.popup.body = "No reading available")
          /\ st.latestReading # Null =>
               /\ m.popup.body = "reading"
               /\ m.popup.temperature = st.latestReading.temperature
               /\ m.popup.emissions = st.latestReading.emissions
               /\ m.popup.noise = st.latestReading.noise
               /\ m.popup.latitude = st.info.latitude
               /\ m.popup.longitude = st.info.longitude
               /\ m.popup.lastUpdated = ToLocaleString(st.latestReading.datetime)

\* C8: the map starts at the fixed center and zoom, its markers are always
\* those of the current station list, and a change of the station list leaves
\* center and zoom as they were.
C8_MapFollowsStations ==
  /\ map.center = initialCenter /\ map.zoom = initialZoom
  /\ []MarkersMatchStations
  /\ [][stations' # stations => (map'.center = map.center /\ map'.zoom = map.zoom)]_vars

\* A zoomed map with two markers, one without and one with a reading.
C8_Witness ==
  /\ Len(stations) = 2
  /\ map.zoom # initialZoom
  /\ map.markers[1].popup.body = "No reading available"
  /\ map.markers[2].popup.body = "reading"
  /\ map.markers[2].popup.noise = 86
  /\ map.markers[2].popup.emissions = 150

\* C9: the panel is loading only with empty results; starting an analysis sets
\* loading and clears the results in one step; the results change only when an
\* analysis starts or settles; and after an analysis has returned they are what
\* that analysis produced from its own station list and outcome.
C9_ResultsFollowAnalysis ==
  /\ [](loading => suggestions = Arr(<<>>))
  /\ [](Settled => (~loading /\ suggestions = CompleteAnalysis(last.stations, last.outcome).final))
  /\ [][Len(calls') > Len(calls) => (loading' /\ suggestions' = Arr(<<>>))]_vars
  /\ [][suggestions' # suggestions => Len(calls') # Len(calls)]_vars

\* A second analysis in flight, the results of the first, which were not
\* empty, cleared.
C9_Witness ==
  /\ loading /\ Len(calls) = 1
  /\ last.state = "returned"
  /\ Length(CompleteAnalysis(last.stations, last.outcome).final) > 0
  /\ suggestions = Arr(<<>>)

\* C10: a toggle changes only the open flag and leaves loading, results,
\* calls in flight and the station list alone; no step changes a station list
\* in place; and a call that settles while the panel is closed has written its
\* results and cleared loading.
C10_ToggleOnlyOpens ==
  /\ [][chatOpen' # chatOpen => UNCHANGED <<loading, suggestions, calls, stations>>]_vars
  /\ [][(Len(calls') < Len(calls) /\ ~chatOpen) =>
          (last'.state = "returned" /\ ~loading'
           /\ suggestions' = CompleteAnalysis(calls[1].stations, last'.outcome).final)]_vars

====
